---- MODULE Spec2Model ----
(***************************************************************************)
(* Procedural scatter of template objects on a terrain (Blender add-on).   *)
(* Two copies of the script live in the repository:                        *)
(*   "auto"    : src/Automatické umiestňovanie objektov/scatter_trees.py   *)
(*   "scripts" : src/scripts/scatter_trees.py                              *)
(* The variable `script` says which one is loaded.                         *)
(*                                                                         *)
(* Units: lengths are integers, weights and thresholds are in 1/100        *)
(* (100 is the weight 1.0), angles are degrees.                            *)
(***************************************************************************)
EXTENDS Integers, Sequences, FiniteSets, TLC

VARIABLES
    script,       \* which copy of the script is registered
    objects,      \* bpy.data.objects: id -> object
    collections,  \* bpy.data.collections (and the scene's master collection)
    run,          \* the locals of scatter_on_terrain
    pc,           \* "idle" | "loop": position of the running operator
    result,       \* what the last operator returned and reported
    call,         \* the last operator invoked and the properties it was given
    twin,         \* reference run of the same request with use_vgroup = False
    first         \* reference run of the same request on the scene without
                  \* the members an earlier run left in the target collection

vars == <<script, objects, collections, run, pc, result, call, twin, first>>

---------------------------------------------------------------------------
(* Bounds of the model and constants of the program *)

MaxCount == 2

AttemptsMultiplier == 40
ZStartDefault == 1000

terrain_name == "Plane"
no_trees_vgroup == "NoTrees"
tree_name == "tree"
bush_name == "Bush"
tree_collection == "Generated_Trees"
bush_collection == "Generated_Bushes"
scene_collection == "Scene Collection"

Scripts == {"auto", "scripts"}

---------------------------------------------------------------------------
(* The scene: objects are identified by <<epoch, k>>; epoch 0 holds the     *)
(* objects that exist before any scatter run; a scatter run creates its    *)
(* objects in an epoch that no object existing at its start belongs to.    *)

NoneId == <<0, 0>>
PlaneId == <<0, 1>>
TreeId == <<0, 2>>
CrownId == <<0, 3>>
LeafId == <<0, 4>>
BushId == <<0, 5>>

\* the vertices of the terrain mesh
Vertices == 0..7

\* vg_weight[vid]: the weight of vertex vid in the NoTrees group, in 1/100;
\* -1 when the vertex is not assigned to the group (vg.weight raises); empty
\* for an object without the group
Obj(name, type, parent, location, mpi, solid, vgs, data) ==
    [name |-> name, type |-> type, parent |-> parent, location |-> location,
     rotz |-> <<0, 180>>, scale |-> <<1, 1, 1>>, matrix_parent_inverse |-> mpi,
     solid |-> solid, vertex_groups |-> vgs, data |-> data,
     vg_weight |-> <<>>]

\* the group of the mesh "plane_mesh": it weighs nothing on face 0 and two
\* of the four vertices of face 1 fully (mean 0.5, max 1.0)
PlaneWeights ==
    [vid \in Vertices |->
        IF vid \in {4, 5} THEN 100 ELSE IF vid \in {0, 1, 6} THEN 0 ELSE -1]

\* a group painted 1.0 over the whole mesh
FullWeights == [vid \in Vertices |-> 100]

\* the terrain "Plane": absent, a mesh with or without the NoTrees group,
\* an object that is no mesh (an empty: it has no geometry), or a flat mesh
\* under the whole sampled square with the NoTrees group painted 1.0
\* everywhere
TerrainChoices == {"none", "mesh_vg", "mesh", "empty", "mesh_flat"}
\* the templates of the scene: none, the template "tree" as a single object
\* without geometry above its origin, "tree" as a trunk with a crown that
\* carries a leaf (tree > crown > leaf), or the template "Bush"
TemplateChoices == {"none", "bare", "kids", "bush"}

Empty == [i \in {} |-> 0]

TerrainObjects(t) ==
    CASE t = "none" -> Empty
      [] t = "mesh_vg" ->
            PlaneId :> [Obj(terrain_name, "MESH", NoneId, <<0, 0, 0>>, "I",
                            FALSE, {no_trees_vgroup}, "plane_mesh")
                          EXCEPT !.vg_weight = PlaneWeights]
      [] t = "mesh_flat" ->
            PlaneId :> [Obj(terrain_name, "MESH", NoneId, <<0, 0, 0>>, "I",
                            FALSE, {no_trees_vgroup}, "flat_mesh")
                          EXCEPT !.vg_weight = FullWeights]
      [] t = "mesh" -> PlaneId :> Obj(terrain_name, "MESH", NoneId, <<0, 0, 0>>, "I",
                                      FALSE, {}, "plane_mesh")
      [] t = "empty" -> PlaneId :> Obj(terrain_name, "EMPTY", NoneId, <<0, 0, 0>>, "I",
                                       FALSE, {}, "")

TemplateObjects(k) ==
    CASE k = "none" -> Empty
      [] k = "bush" -> BushId :> Obj(bush_name, "EMPTY", NoneId, <<9, -9, 0>>, "I",
                                     FALSE, {}, "")
      [] k = "bare" -> TreeId :> Obj(tree_name, "EMPTY", NoneId, <<9, 9, 0>>, "I",
                                     FALSE, {}, "")
      [] k = "kids" ->
            (TreeId :> Obj(tree_name, "MESH", NoneId, <<9, 9, 0>>, "I",
                           TRUE, {}, "trunk_mesh"))
         @@ (CrownId :> Obj("crown", "MESH", TreeId, <<0, 0, 3>>, "crown_inv",
                            TRUE, {}, "crown_mesh"))
         @@ (LeafId :> Obj("leaf", "MESH", CrownId, <<0, 0, 1>>, "leaf_inv",
                           TRUE, {}, "leaf_mesh"))

SceneObjects(t, k) == TerrainObjects(t) @@ TemplateObjects(k)

CollectionNames == {tree_collection, bush_collection, scene_collection}

NoCollection == [exists |-> FALSE, gen |-> 0, objects |-> {}]

\* the scenes of the model: every pair of choices of script, vertex group
\* and template occurs in one of them
Scenes ==
    {<<s, t, k>> \in Scripts \X TerrainChoices \X TemplateChoices :
        /\ (t \in {"mesh_vg", "mesh"} /\ k \in {"bare", "kids"})
              => ((s = "auto") = ((t = "mesh_vg") = (k = "kids")))
        /\ t = "mesh_flat" => k = (IF s = "auto" THEN "kids" ELSE "bare")}

---------------------------------------------------------------------------
(* Terrain geometry (the mesh of "Plane"): the sampled square has four     *)
(* sample points (+-area, +-area). Of "plane_mesh" the two with y < 0 lie  *)
(* over a face of the mesh each, the two with y > 0 lie beside the mesh,   *)
(* and face 1 lies higher than face 0; "flat_mesh" lies under all four at  *)
(* height 0.                                                               *)

Covers(mesh, x, y) == mesh = "flat_mesh" \/ y < 0

FaceAt(x, y) == IF x < 0 THEN 0 ELSE 1

FaceHeight(mesh, f) == IF mesh = "plane_mesh" /\ f = 1 THEN 3 ELSE 0

Faces == {0, 1}

\* poly.vertices: each face is a quad of its own four vertices
PolyVertices(f) == [i \in 1..4 |-> 4 * f + (i - 1)]

\* vg.weight(vid): whether the vertex is assigned to the NoTrees group (no
\* RuntimeError), and its weight
InGroup(terrain, vid) == terrain.vg_weight[vid] >= 0
GroupWeight(terrain, vid) == terrain.vg_weight[vid]

---------------------------------------------------------------------------
(* Host primitives and the helpers of the script *)

\* bpy.data.objects.get(name): the object of that name, or None
objects_get(objs, name) ==
    IF \E i \in DOMAIN objs : objs[i].name = name
    THEN CHOOSE i \in DOMAIN objs : objs[i].name = name
    ELSE NoneId

\* obj.users_collection
users_collection(cols, id) ==
    {n \in DOMAIN cols : cols[n].exists /\ id \in cols[n].objects}

\* get_or_create_collection(name): the collections after the call; `gen`
\* counts the collections created under the name
get_or_create_collection(cols, name) ==
    IF cols[name].exists
    THEN cols
    ELSE [cols EXCEPT ![name] = [exists |-> TRUE, gen |-> @.gen + 1, objects |-> {}]]

\* get_collection(name): None is a collection that does not exist
get_collection(cols, name) == cols[name]

\* bpy.data.objects.remove(obj, do_unlink=True) for every obj of `gone`:
\* the objects leave bpy.data.objects and every collection; an object whose
\* parent is removed is left without a parent
objects_remove(objs, cols, gone) ==
    [objects |-> [i \in DOMAIN objs \ gone |->
                    IF objs[i].parent \in gone
                    THEN [objs[i] EXCEPT !.parent = NoneId]
                    ELSE objs[i]],
     collections |-> [n \in DOMAIN cols |->
                        [cols[n] EXCEPT !.objects = @ \ gone]]]

\* faulty clear_collection: the members are unlinked from the collection but
\* stay in bpy.data.objects
clear_collection_unlink_only(objs, cols, name) ==
    IF ~cols[name].exists
    THEN [objects |-> objs, collections |-> cols]
    ELSE [objects |-> objs,
          collections |-> [cols EXCEPT ![name].objects = {}]]

\* faulty clear_collection: only the members without a parent are removed
clear_collection_roots_only(objs, cols, name) ==
    IF ~cols[name].exists
    THEN [objects |-> objs, collections |-> cols]
    ELSE objects_remove(objs, cols,
                        {i \in cols[name].objects : objs[i].parent = NoneId})

\* faulty clear_collection: the objects of every generated collection are
\* removed, not only those of col
clear_collection_every_target(objs, cols, name) ==
    IF ~cols[name].exists
    THEN [objects |-> objs, collections |-> cols]
    ELSE objects_remove(objs, cols,
                        UNION {cols[n].objects : n \in DOMAIN cols \ {scene_collection}})

\* clear_collection(col): col is given by name; None (not existing) is a no-op
clear_collection(objs, cols, name) ==
    IF ~cols[name].exists
    THEN [objects |-> objs, collections |-> cols]
    ELSE objects_remove(objs, cols, cols[name].objects)

RECURSIVE RootOf(_, _)
RootOf(objs, id) ==
    IF objs[id].parent = NoneId \/ objs[id].parent \notin DOMAIN objs
    THEN id
    ELSE RootOf(objs, objs[id].parent)

\* the highest point of the geometry of a solid object: children are stacked
\* on their root, so every object of a hierarchy stands over the root's (x, y)
TopOf(objs, id) ==
    LET r == objs[RootOf(objs, id)]
    IN r.location[3] + r.scale[3]

\* scene.ray_cast(depsgraph, (x, y, z_start), (0, 0, -1)): the nearest
\* geometry below the origin, among the objects linked into the scene
scene_ray_cast(objs, cols, x, y, z_start) ==
    LET solids == {i \in DOMAIN objs :
                     /\ objs[i].solid
                     /\ users_collection(cols, i) # {}
                     /\ objs[RootOf(objs, i)].location[1] = x
                     /\ objs[RootOf(objs, i)].location[2] = y
                     /\ TopOf(objs, i) < z_start}
        ground == PlaneId \in DOMAIN objs
                  /\ objs[PlaneId].type = "MESH"
                  /\ Covers(objs[PlaneId].data, x, y)
                  /\ FaceHeight(objs[PlaneId].data, FaceAt(x, y)) < z_start
        miss == [hit |-> FALSE, location |-> <<0, 0, 0>>, face_index |-> -1,
                 hit_obj |-> NoneId]
    IN  IF solids # {}
        THEN LET o == CHOOSE i \in solids :
                         \A j \in solids : TopOf(objs, j) <= TopOf(objs, i)
             IN  IF ground /\ FaceHeight(objs[PlaneId].data, FaceAt(x, y)) >= TopOf(objs, o)
                 THEN [hit |-> TRUE,
                       location |-> <<x, y, FaceHeight(objs[PlaneId].data, FaceAt(x, y))>>,
                       face_index |-> FaceAt(x, y), hit_obj |-> PlaneId]
                 ELSE [hit |-> TRUE, location |-> <<x, y, TopOf(objs, o)>>,
                       face_index |-> 0, hit_obj |-> o]
        ELSE IF ground
        THEN [hit |-> TRUE, location |-> <<x, y, FaceHeight(objs[PlaneId].data, FaceAt(x, y))>>,
              face_index |-> FaceAt(x, y), hit_obj |-> PlaneId]
        ELSE miss

NoHit == [ok |-> FALSE, loc |-> <<0, 0, 0>>, face_index |-> -1]

\* faulty raycast_to_terrain: the object hit is not compared with the terrain
raycast_any_hit(objs, cols, terrain, x, y, z_start) ==
    LET rc == scene_ray_cast(objs, cols, x, y, z_start)
    IN  IF rc.hit
        THEN [ok |-> TRUE, loc |-> rc.location, face_index |-> rc.face_index]
        ELSE NoHit

\* raycast_to_terrain(terrain, x, y, z_start): (location, face_index), or
\* (None, None) when the ray hits nothing or an object that is not the terrain
raycast_to_terrain(objs, cols, terrain, x, y, z_start) ==
    LET rc == scene_ray_cast(objs, cols, x, y, z_start)
    IN  IF rc.hit /\ rc.hit_obj # NoneId /\ objs[rc.hit_obj].name = objs[terrain].name
        THEN [ok |-> TRUE, loc |-> rc.location, face_index |-> rc.face_index]
        ELSE NoHit

RECURSIVE SumSeq(_)
SumSeq(s) == IF s = <<>> THEN 0 ELSE Head(s) + SumSeq(Tail(s))

\* faulty max(weights): the first weight of the list
MaxSeq_head(s) == Head(s)

RECURSIVE MaxSeq(_)
\* max(weights)
MaxSeq(s) ==
    IF Len(s) = 1 THEN Head(s)
    ELSE LET m == MaxSeq(Tail(s)) IN IF Head(s) > m THEN Head(s) ELSE m

\* the list `weights` built by the for loop: vg.weight(vid), 0.0 when the
\* vertex is not in the group (RuntimeError)
face_weights(terrain, face_index) ==
    LET poly == PolyVertices(face_index)
    IN  [i \in 1..Len(poly) |->
           IF InGroup(terrain, poly[i]) THEN GroupWeight(terrain, poly[i]) ELSE 0]

\* faulty vgroup_weight_at_face_avg: a missing group counts as weight 1.0
vgroup_weight_missing_is_one(terrain, vgroup_name, face_index) ==
    IF vgroup_name \notin terrain.vertex_groups
    THEN 100
    ELSE LET weights == face_weights(terrain, face_index)
         IN  IF Len(weights) > 0 THEN SumSeq(weights) \div Len(weights) ELSE 0

\* vgroup_weight_at_face_avg(terrain, vgroup_name, face_index); the weights
\* of the modelled mesh make every mean a whole number of hundredths
vgroup_weight_at_face_avg(terrain, vgroup_name, face_index) ==
    IF vgroup_name \notin terrain.vertex_groups
    THEN 0
    ELSE LET weights == face_weights(terrain, face_index)
         IN  IF Len(weights) > 0 THEN SumSeq(weights) \div Len(weights) ELSE 0

\* vgroup_weight_at_face_max(terrain, vgroup_name, face_index)
vgroup_weight_at_face_max(terrain, vgroup_name, face_index) ==
    IF vgroup_name \notin terrain.vertex_groups
    THEN 0
    ELSE LET weights == face_weights(terrain, face_index)
         IN  IF Len(weights) > 0 THEN MaxSeq(weights) ELSE 0

\* VGROUP_WEIGHT_FUNC = vgroup_weight_at_face_avg
VGROUP_WEIGHT_FUNC(terrain, vgroup_name, face_index) ==
    vgroup_weight_at_face_avg(terrain, vgroup_name, face_index)

\* src_obj.copy(): a new object with the same fields, sharing the data block,
\* under a new name and linked to no collection
object_copy(o) == [o EXCEPT !.name = o.name \o ".001"]

\* the epoch of a new run: the least one no existing object belongs to
RECURSIVE LeastFree(_, _)
LeastFree(used, e) == IF e \in used THEN LeastFree(used, e + 1) ELSE e

NewEpoch(objs) == LeastFree({i[1] : i \in DOMAIN objs}, 1)

\* the id the next object created in this epoch gets
NewId(objs, epoch) ==
    <<epoch, 1 + Cardinality({i \in DOMAIN objs : i[1] = epoch})>>

\* faulty link: the object is linked into the scene collection as well
objects_link_scene_too(cols, name, id) ==
    [cols EXCEPT ![name].objects = @ \cup {id},
                 ![scene_collection].objects = @ \cup {id}]

\* target_collection.objects.link(obj)
objects_link(cols, name, id) ==
    [cols EXCEPT ![name].objects = @ \cup {id}]

\* src_obj.children, in the order of the ids
RECURSIVE SetToSeq(_)
SetToSeq(S) ==
    IF S = {} THEN <<>>
    ELSE LET m == CHOOSE a \in S : \A b \in S : a[1] < b[1] \/ (a[1] = b[1] /\ a[2] <= b[2])
         IN  <<m>> \o SetToSeq(S \ {m})

children(objs, id) == SetToSeq({i \in DOMAIN objs : objs[i].parent = id})

\* matrix_basis is the matrix of location, rotation and scale
matrix_basis(o) == <<o.location, o.rotz, o.scale>>

set_matrix_basis(o, m) ==
    [o EXCEPT !.location = m[1], !.rotz = m[2], !.scale = m[3]]

\* F(v), with v evaluated once
Bind(v, F(_)) == CHOOSE r \in {F(x) : x \in {v}} : TRUE

\* copy_with_children(src_obj, target_collection): the state after the call
\* and the new object
RECURSIVE copy_with_children(_, _, _, _, _)
RECURSIVE copy_children(_, _, _, _, _, _)

copy_with_children(objs, cols, src_obj, target_collection, epoch) ==
    Bind(NewId(objs, epoch), LAMBDA new_obj :
      Bind(objs @@ (new_obj :> object_copy(objs[src_obj])), LAMBDA objs1 :
        Bind(copy_children(objs1,
                           objects_link(cols, target_collection, new_obj),
                           children(objs1, src_obj), new_obj,
                           target_collection, epoch),
             LAMBDA done :
                [objects |-> done.objects, collections |-> done.collections,
                 new_obj |-> new_obj])))

\* the body of `for child in src_obj.children`, over the children left:
\* new_child = copy_with_children(child, ...); new_child.parent = new_obj;
\* matrix_parent_inverse and matrix_basis are those of child
copy_children(objs, cols, left, new_obj, target_collection, epoch) ==
    IF left = <<>>
    THEN [objects |-> objs, collections |-> cols]
    ELSE Bind(copy_with_children(objs, cols, Head(left), target_collection, epoch),
              LAMBDA c :
                copy_children(
                    [c.objects EXCEPT ![c.new_obj] =
                        set_matrix_basis(
                            [@ EXCEPT !.parent = new_obj,
                                      !.matrix_parent_inverse =
                                          objs[Head(left)].matrix_parent_inverse],
                            matrix_basis(objs[Head(left)]))],
                    c.collections, Tail(left), new_obj, target_collection, epoch))

---------------------------------------------------------------------------
(* scatter_on_terrain *)

\* the operator properties handed to scatter_on_terrain
ScaleRanges == {<<1, 1>>, <<1, 2>>, <<2, 1>>}

Request(c, sr, u, t, d) ==
    [count |-> c, area |-> 1, z_start |-> ZStartDefault,
     min_scale |-> sr[1], max_scale |-> sr[2],
     use_vgroup |-> u, path_threshold |-> t, min_distance |-> d]

\* use_vgroup and path_threshold
Filters == {<<FALSE, 50>>, <<TRUE, 0>>, <<TRUE, 50>>}

TreeRequests ==
    {Request(c, sr, f[1], f[2], d) :
        c \in 1..MaxCount, sr \in ScaleRanges,
        f \in Filters, d \in {0, 3}}

BushRequests ==
    {Request(1, <<1, 1>>, TRUE, 50, d) : d \in {0, 3}}

\* random.uniform(-area, area): the two sample coordinates of the model
Samples(area) == {-area, area}
\* random.uniform(0, 360), in degrees
Yaws == {90}
\* random.uniform(min_scale, max_scale)
ScaleDraws(min_scale, max_scale) == {min_scale, max_scale}

\* math.radians(deg): the angle as the fraction deg/180 of pi
radians(deg) == <<deg, 180>>

Draws(r) ==
    [x : Samples(r.area), y : Samples(r.area), yaw : Yaws,
     s : ScaleDraws(r.min_scale, r.max_scale)]

IdleRun ==
    [src |-> NoneId, terrain |-> NoneId, col |-> "", epoch |-> 0,
     count |-> 0, area |-> 0, z_start |-> 0, min_scale |-> 0, max_scale |-> 0,
     use_vgroup |-> FALSE, path_threshold |-> 0, min_distance |-> 0,
     placed_positions |-> <<>>, placed |-> 0, tries |-> 0, max_tries |-> 0]

\* the checks at the head of scatter_on_terrain: the message of the
\* RuntimeError raised, "" when none is raised
validate_auto(objs, source_obj_name, req) ==
    LET terrain == objects_get(objs, terrain_name)
        src == objects_get(objs, source_obj_name)
    IN  IF terrain = NoneId THEN "Terrain not found"
        ELSE IF objs[terrain].type # "MESH" THEN "Terrain must be mesh"
        ELSE IF src = NoneId THEN "Source object not found"
        ELSE IF req.max_scale < req.min_scale THEN "Invalid scale range"
        ELSE ""

validate_scripts(objs, source_obj_name, req) ==
    LET terrain == objects_get(objs, terrain_name)
        src == objects_get(objs, source_obj_name)
    IN  IF terrain = NoneId THEN "Terrain 'Plane' not found."
        ELSE IF src = NoneId THEN "Source object not found."
        ELSE IF req.max_scale < req.min_scale THEN "Max scale must be >= Min scale."
        ELSE ""

\* faulty validation: the scale range is not checked
validate_no_scale_check(s, objs, source_obj_name, req) ==
    IF s = "auto"
    THEN validate_auto(objs, source_obj_name, [req EXCEPT !.max_scale = req.min_scale])
    ELSE validate_scripts(objs, source_obj_name, [req EXCEPT !.max_scale = req.min_scale])

validate(s, objs, source_obj_name, req) ==
    IF s = "auto"
    THEN validate_auto(objs, source_obj_name, req)
    ELSE validate_scripts(objs, source_obj_name, req)

\* faulty setup: the target collection is not cleared
scatter_setup_keeps_members(objs, cols, source_obj_name, target_collection_name, req) ==
    [objects |-> objs,
     collections |-> get_or_create_collection(cols, target_collection_name),
     run |-> [src |-> objects_get(objs, source_obj_name),
              terrain |-> objects_get(objs, terrain_name),
              col |-> target_collection_name, epoch |-> NewEpoch(objs),
              count |-> req.count, area |-> req.area, z_start |-> req.z_start,
              min_scale |-> req.min_scale, max_scale |-> req.max_scale,
              use_vgroup |-> req.use_vgroup,
              path_threshold |-> req.path_threshold,
              min_distance |-> req.min_distance,
              placed_positions |-> <<>>, placed |-> 0, tries |-> 0,
              max_tries |-> req.count * AttemptsMultiplier]]

\* from get_or_create_collection to max_tries = count * 40: the state in
\* which the while loop is entered
scatter_setup(objs, cols, source_obj_name, target_collection_name, req) ==
    LET cols1 == get_or_create_collection(cols, target_collection_name)
        cleared == clear_collection(objs, cols1, target_collection_name)
    IN  [objects |-> cleared.objects,
         collections |-> cleared.collections,
         run |-> [src |-> objects_get(objs, source_obj_name),
                  terrain |-> objects_get(objs, terrain_name),
                  col |-> target_collection_name, epoch |-> NewEpoch(objs),
                  count |-> req.count, area |-> req.area, z_start |-> req.z_start,
                  min_scale |-> req.min_scale, max_scale |-> req.max_scale,
                  use_vgroup |-> req.use_vgroup,
                  path_threshold |-> req.path_threshold,
                  min_distance |-> req.min_distance,
                  placed_positions |-> <<>>, placed |-> 0, tries |-> 0,
                  max_tries |-> req.count * AttemptsMultiplier]]

\* faulty counter: tries wraps around before it reaches max_tries
count_try_wraps(r) == [r EXCEPT !.tries = (@ + 1) % 2]

\* tries += 1
count_try(r) == [r EXCEPT !.tries = @ + 1]

\* faulty loop condition: one try more than max_tries
loop_condition_late(r) == r.placed < r.count /\ r.tries <= r.max_tries

\* while placed < count and tries < max_tries
loop_condition(r) == r.placed < r.count /\ r.tries < r.max_tries

\* faulty filter: no weight rejects
weight_rejects_never(w, path_threshold) == FALSE

\* faulty filter: the comparison is inverted
weight_rejects_inverted(w, path_threshold) == w < path_threshold

\* if w > path_threshold: continue
weight_rejects(w, path_threshold) == w > path_threshold

\* (loc_vec - p).length < min_distance, on the squares
Dist2(a, b) ==
    (a[1] - b[1]) * (a[1] - b[1]) + (a[2] - b[2]) * (a[2] - b[2])
    + (a[3] - b[3]) * (a[3] - b[3])

too_close(loc_vec, placed_positions, min_distance) ==
    \E k \in 1..Len(placed_positions) :
        Dist2(loc_vec, placed_positions[k]) < min_distance * min_distance

\* faulty bookkeeping: the accepted position is not recorded
record_position_dropped(placed_positions, loc_vec) == placed_positions

\* faulty placed_positions.append(loc_vec): the position is appended twice
record_position_twice(placed_positions, loc_vec) ==
    Append(Append(placed_positions, loc_vec), loc_vec)

\* placed_positions.append(loc_vec)
record_position(placed_positions, loc_vec) == Append(placed_positions, loc_vec)

\* one pass through the body of the while loop with the draws d
scatter_iteration_auto(objs, cols, r, d) ==
  Bind(raycast_to_terrain(objs, cols, r.terrain, d.x, d.y, r.z_start), LAMBDA rc :
    LET r1 == count_try(r)
        continue == [objects |-> objs, collections |-> cols, run |-> r1]
    IN  IF ~rc.ok THEN continue
        ELSE IF r.use_vgroup
                /\ weight_rejects(vgroup_weight_at_face_avg(objs[r.terrain],
                                      no_trees_vgroup, rc.face_index),
                                  r.path_threshold)
        THEN continue
        ELSE IF r.min_distance > 0
                /\ too_close(rc.loc, r.placed_positions, r.min_distance)
        THEN continue
        ELSE LET r2 == IF r.min_distance > 0
                       THEN [r1 EXCEPT !.placed_positions =
                                record_position(@, rc.loc)]
                       ELSE r1
             IN  Bind(copy_with_children(objs, cols, r.src, r.col, r.epoch),
                      LAMBDA cp :
                        [objects |-> [cp.objects EXCEPT ![cp.new_obj] =
                                        [@ EXCEPT !.location = rc.loc,
                                                  !.rotz = radians(d.yaw),
                                                  !.scale = <<d.s, d.s, d.s>>]],
                         collections |-> cp.collections,
                         run |-> [r2 EXCEPT !.placed = @ + 1]]))

scatter_iteration_scripts(objs, cols, r, d) ==
  Bind(raycast_to_terrain(objs, cols, r.terrain, d.x, d.y, r.z_start), LAMBDA rc :
    LET r1 == count_try(r)
        continue == [objects |-> objs, collections |-> cols, run |-> r1]
    IN  IF ~rc.ok THEN continue
        ELSE IF weight_rejects(VGROUP_WEIGHT_FUNC(objs[r.terrain],
                                   no_trees_vgroup, rc.face_index),
                               r.path_threshold)
        THEN continue
        ELSE IF r.min_distance > 0
                /\ too_close(rc.loc, r.placed_positions, r.min_distance)
        THEN continue
        ELSE LET r2 == IF r.min_distance > 0
                       THEN [r1 EXCEPT !.placed_positions =
                                record_position(@, rc.loc)]
                       ELSE r1
                 id == NewId(objs, r.epoch)
                 copy == object_copy(objs[r.src])
                 new_obj == [copy EXCEPT
                               !.data = IF objs[r.src].data # ""
                                        THEN objs[r.src].data \o ".001"
                                        ELSE @,
                               !.location = rc.loc,
                               !.rotz = radians(d.yaw),
                               !.scale = <<d.s, d.s, d.s>>]
             IN  [objects |-> objs @@ (id :> new_obj),
                  collections |-> objects_link(cols, r.col, id),
                  run |-> [r2 EXCEPT !.placed = @ + 1]])

scatter_iteration(s, objs, cols, r, d) ==
    IF s = "auto"
    THEN scatter_iteration_auto(objs, cols, r, d)
    ELSE scatter_iteration_scripts(objs, cols, r, d)

---------------------------------------------------------------------------
(* The operators *)

NoTwin == [armed |-> FALSE, objects |-> Empty, collections |-> Empty,
           run |-> IdleRun]

NoResult == [status |-> "NONE", message |-> "", placed |-> -1]

NoRequest == Request(0, <<0, 0>>, FALSE, 0, 0)

ScatterOps == {"scatter_trees", "scatter_bushes"}

\* the template and the target collection an operator passes
SourceOf(op) == IF op = "scatter_trees" THEN tree_name ELSE bush_name
TargetOf(op) ==
    IF op \in {"scatter_trees", "clear_trees"} THEN tree_collection ELSE bush_collection

Init ==
    /\ \E sc \in Scenes :
          /\ script = sc[1]
          /\ objects = SceneObjects(sc[2], sc[3])
    /\ collections =
         [n \in CollectionNames |->
            IF n = scene_collection
            THEN [exists |-> TRUE, gen |-> 0, objects |-> DOMAIN objects]
            ELSE NoCollection]
    /\ run = IdleRun
    /\ pc = "idle"
    /\ result = NoResult
    /\ call = [op |-> "none", req |-> NoRequest]
    /\ twin = NoTwin
    /\ first = NoTwin

\* the scene as it is without the members of a collection and without the
\* collection itself: what a first run on that collection finds
WithoutCollection(objs, cols, name) ==
    LET gone == objects_remove(objs, cols, cols[name].objects)
    IN  [objects |-> gone.objects,
         collections |-> [gone.collections EXCEPT ![name] = NoCollection]]

\* execute() of OBJECT_OT_scatter_trees / OBJECT_OT_scatter_bushes up to the
\* head of the while loop, or to the except clause
Scatter(op, req) ==
    /\ pc = "idle"
    /\ script = "scripts" => req.use_vgroup
    /\ call' = [op |-> op, req |-> req]
    /\ LET err == validate(script, objects, SourceOf(op), req)
           s == scatter_setup(objects, collections, SourceOf(op),
                              TargetOf(op), req)
       IN  IF err # ""
           THEN /\ result' = [status |-> "CANCELLED", message |-> err, placed |-> -1]
                /\ UNCHANGED <<script, objects, collections, run, pc, twin, first>>
           ELSE /\ objects' = s.objects
                /\ collections' = s.collections
                /\ run' = s.run
                /\ pc' = "loop"
                /\ result' = NoResult
                /\ twin' = IF script = "auto" /\ req.use_vgroup
                              /\ no_trees_vgroup \notin objects[s.run.terrain].vertex_groups
                           THEN [armed |-> TRUE, objects |-> s.objects,
                                 collections |-> s.collections,
                                 run |-> [s.run EXCEPT !.use_vgroup = FALSE]]
                           ELSE NoTwin
                /\ first' = LET w == WithoutCollection(objects, collections,
                                                       TargetOf(op))
                                f == scatter_setup(w.objects, w.collections,
                                                   SourceOf(op), TargetOf(op), req)
                            IN  [armed |-> TRUE, objects |-> f.objects,
                                 collections |-> f.collections, run |-> f.run]
                /\ UNCHANGED script

OBJECT_OT_scatter_trees ==
    \E req \in TreeRequests : Scatter("scatter_trees", req)

OBJECT_OT_scatter_bushes ==
    \E req \in BushRequests : Scatter("scatter_bushes", req)

\* the reference run r takes an iteration with the draws d, if its loop
\* condition holds
reference_iteration(r, d) ==
    IF r.armed /\ loop_condition(r.run)
    THEN Bind(scatter_iteration(script, r.objects, r.collections, r.run, d),
              LAMBDA m :
                [armed |-> TRUE, objects |-> m.objects,
                 collections |-> m.collections, run |-> m.run])
    ELSE r

\* one iteration of the while loop; the reference runs take the same draws
LoopIter ==
    /\ pc = "loop"
    /\ loop_condition(run)
    /\ \E d \in Draws(run) :
          /\ \E n \in {scatter_iteration(script, objects, collections, run, d)} :
                /\ objects' = n.objects
                /\ collections' = n.collections
                /\ run' = n.run
          /\ twin' = reference_iteration(twin, d)
          /\ first' = reference_iteration(first, d)
    /\ UNCHANGED <<script, pc, result, call>>

\* the loop condition fails: return placed, tries; back in execute():
\* self.report({"INFO"}, ...); return {"FINISHED"}
Return ==
    /\ pc = "loop"
    /\ ~loop_condition(run)
    /\ result' = [status |-> "FINISHED", message |-> "placed", placed |-> run.placed]
    /\ run' = IdleRun
    /\ twin' = NoTwin
    /\ first' = NoTwin
    /\ pc' = "idle"
    /\ UNCHANGED <<script, objects, collections, call>>

\* execute() of OBJECT_OT_clear_trees / OBJECT_OT_clear_bushes
Clear(op) ==
    /\ pc = "idle"
    /\ call' = [op |-> op, req |-> NoRequest]
    /\ LET name == TargetOf(op)
           col == get_collection(collections, name)
           c == clear_collection(objects, collections, name)
       IN  IF script = "scripts" /\ ~col.exists
           THEN /\ result' = [status |-> "FINISHED", message |-> "not found", placed |-> -1]
                /\ UNCHANGED <<objects, collections>>
           ELSE /\ objects' = c.objects
                /\ collections' = c.collections
                /\ result' = [status |-> "FINISHED",
                              message |-> IF script = "scripts" THEN "Cleared" ELSE "",
                              placed |-> -1]
    /\ UNCHANGED <<script, run, pc, twin, first>>

OBJECT_OT_clear_trees == Clear("clear_trees")

OBJECT_OT_clear_bushes == Clear("clear_bushes")

Next ==
    \/ OBJECT_OT_scatter_trees
    \/ OBJECT_OT_scatter_bushes
    \/ LoopIter
    \/ Return
    \/ OBJECT_OT_clear_trees
    \/ OBJECT_OT_clear_bushes

Spec == Init /\ [][Next]_vars

\* execute() runs to completion once invoked: the loop is not suspended
\* The interpreter keeps executing the while loop and the return that follows
\* it: weak fairness of Return and of LoopIter. ENABLED <<LoopIter>>_vars is
\* written as the loop's condition: a draw always exists and every iteration
\* counts a try.
LoopIterFair ==
    \/ []<>~(pc = "loop" /\ loop_condition(run))
    \/ []<><<LoopIter>>_vars

FairSpec == Init /\ [][Next]_vars /\ WF_vars(Return) /\ LoopIterFair

\* The same operators on a scene that holds both templates, "tree" (trunk,
\* crown and leaf for the first script, a single object for the second) and
\* "Bush", on the terrain with the NoTrees group: both target collections
\* get populated.
BothInit ==
    /\ script \in Scripts
    /\ objects = TerrainObjects("mesh_vg")
                   @@ TemplateObjects(IF script = "auto" THEN "kids" ELSE "bare")
                   @@ TemplateObjects("bush")
    /\ collections =
         [n \in CollectionNames |->
            IF n = scene_collection
            THEN [exists |-> TRUE, gen |-> 0, objects |-> DOMAIN objects]
            ELSE NoCollection]
    /\ run = IdleRun
    /\ pc = "idle"
    /\ result = NoResult
    /\ call = [op |-> "none", req |-> NoRequest]
    /\ twin = NoTwin
    /\ first = NoTwin

BothSpec == BothInit /\ [][Next]_vars

---------------------------------------------------------------------------
(* The weight functions on their own: the terrain "Plane" carries or lacks *)
(* the NoTrees group, the four vertices of face 0 are painted with every   *)
(* combination of weights, and either function is applied to a face.       *)

\* vg.weight(vid) of a vertex of face 0, in 1/100 (multiples of 4/100: the
\* mean of four is a whole number of hundredths); -1: not in the group
WeightDraws == {-1, 0, 40, 100}

\* path_threshold of the comparison weight > path_threshold
Thresholds == {0, 20, 50, 100}

WeightInit ==
    /\ script \in Scripts
    /\ \E has \in BOOLEAN, w \in [0..3 -> WeightDraws] :
          /\ ~has => w = [vid \in 0..3 |-> -1]
          /\ objects = PlaneId :>
                [Obj(terrain_name, "MESH", NoneId, <<0, 0, 0>>, "I", FALSE,
                     IF has THEN {no_trees_vgroup} ELSE {}, "plane_mesh")
                   EXCEPT !.vg_weight =
                     IF has
                     THEN [vid \in Vertices |->
                             IF vid \in 0..3 THEN w[vid] ELSE PlaneWeights[vid]]
                     ELSE <<>>]
    /\ collections =
         [n \in CollectionNames |->
            IF n = scene_collection
            THEN [exists |-> TRUE, gen |-> 0, objects |-> DOMAIN objects]
            ELSE NoCollection]
    /\ run = IdleRun
    /\ pc = "weigh"
    /\ result = NoResult
    /\ call = [op |-> "none", req |-> NoRequest]
    /\ twin = NoTwin
    /\ first = NoTwin

\* w = vgroup_weight_at_face_avg(terrain, NO_TREES_VGROUP, face_index) and
\* w = vgroup_weight_at_face_max(...), each followed by the comparison
\* `if w > path_threshold: continue` of the loop
Weigh(face_index, path_threshold) ==
    /\ pc = "weigh"
    /\ LET terrain == objects_get(objects, terrain_name)
           avg == vgroup_weight_at_face_avg(objects[terrain], no_trees_vgroup, face_index)
           max == vgroup_weight_at_face_max(objects[terrain], no_trees_vgroup, face_index)
       IN  result' = [status |-> "WEIGHED", face_index |-> face_index,
                      path_threshold |-> path_threshold,
                      avg |-> avg, max |-> max,
                      w |-> VGROUP_WEIGHT_FUNC(objects[terrain], no_trees_vgroup,
                                               face_index),
                      rejected_avg |-> weight_rejects(avg, path_threshold),
                      rejected_max |-> weight_rejects(max, path_threshold)]
    /\ UNCHANGED <<script, objects, collections, run, pc, call, twin, first>>

WeightNext == \E f \in Faces, t \in Thresholds : Weigh(f, t)

WeightSpec == WeightInit /\ [][WeightNext]_vars

---------------------------------------------------------------------------
(* Properties *)

\* the roots of the instances in a collection
InstanceRoots(name) ==
    {i \in collections[name].objects : objects[i].parent = NoneId}

\* the weight filter is applied by the running scatter
FilterEnabled == script = "scripts" \/ run.use_vgroup

\* the weight the running script computes for a face
FaceWeight(f) ==
    IF script = "auto"
    THEN vgroup_weight_at_face_avg(objects[run.terrain], no_trees_vgroup, f)
    ELSE VGROUP_WEIGHT_FUNC(objects[run.terrain], no_trees_vgroup, f)

C2_WeightFilter ==
    (pc = "loop" /\ FilterEnabled) =>
        \A i \in InstanceRoots(run.col) :
            FaceWeight(FaceAt(objects[i].location[1], objects[i].location[2]))
                <= run.path_threshold

\* an instance on a face whose weight equals the threshold, the group present
C2_Witness ==
    /\ pc = "loop" /\ FilterEnabled
    /\ no_trees_vgroup \in objects[run.terrain].vertex_groups
    /\ \E i \in InstanceRoots(run.col) :
          /\ FaceWeight(FaceAt(objects[i].location[1], objects[i].location[2])) = 50
          /\ run.path_threshold = 50

\* C3: at every iteration boundary and at return,
\* placed <= tries <= count * 40.
C3_Budget ==
    pc = "loop" =>
        /\ run.tries <= run.count * AttemptsMultiplier
        /\ run.tries >= run.placed

\* the budget is used up with fewer than count placements
C3_Witness ==
    /\ pc = "loop"
    /\ run.tries = run.count * AttemptsMultiplier
    /\ run.placed >= 1 /\ run.placed < run.count

\* C4: every run that passes validation returns; when it returns,
\* placed = count or tries = count * 40, and the operator finishes normally
\* with the placed count, also when placed < count.
C4_Terminates ==
    /\ (pc = "loop") ~> (pc = "idle")
    /\ [][(pc = "loop" /\ pc' = "idle") =>
            /\ run.placed = run.count \/ run.tries = run.count * AttemptsMultiplier
            /\ result'.status = "FINISHED"
            /\ result'.placed = run.placed]_vars

\* a run has returned fewer placements than requested
C4_Witness ==
    /\ pc = "idle"
    /\ result.status = "FINISHED"
    /\ call.op \in ScatterOps
    /\ result.placed >= 0 /\ result.placed < call.req.count

\* execute() of a scatter operator has returned {"FINISHED"}
FinishedScatter ==
    pc = "idle" /\ call.op \in ScatterOps /\ result.status = "FINISHED"

\* the objects made by scatter runs
Generated == {i \in DOMAIN objects : i[1] > 0}

\* a configuration error of a request: terrain not found, terrain not a
\* mesh, template not found, or min_scale > max_scale
ConfigError(objs, op, req) ==
    LET terrain == objects_get(objs, terrain_name)
    IN  \/ terrain = NoneId
        \/ terrain # NoneId /\ objs[terrain].type # "MESH"
        \/ objects_get(objs, SourceOf(op)) = NoneId
        \/ req.min_scale > req.max_scale

\* C5: a scatter call whose request has a configuration error changes no
\* object and no collection, starts no loop, and returns CANCELLED.
C5_FailsBeforeMutation ==
    [][(pc = "idle" /\ call'.op \in ScatterOps
            /\ ConfigError(objects, call'.op, call'.req)) =>
        /\ objects' = objects
        /\ collections' = collections
        /\ pc' = "idle"
        /\ result'.status = "CANCELLED"]_vars

\* C6: during and after a scatter run the target collection holds exactly the
\* objects this run created; every object an earlier run created in it is
\* gone from the collection and from bpy.data.objects; and the collection of
\* a name is created once only.
C6_Regeneration ==
    /\ pc = "loop" =>
          /\ collections[run.col].exists
          /\ collections[run.col].objects =
                {i \in DOMAIN objects : i[1] = run.epoch}
          /\ \A i \in Generated :
                i[1] # run.epoch =>
                    /\ users_collection(collections, i) # {}
                    /\ run.col \notin users_collection(collections, i)
    /\ FinishedScatter =>
          /\ \A i, j \in collections[TargetOf(call.op)].objects : i[1] = j[1]
          /\ \A i \in Generated : users_collection(collections, i) # {}
    /\ \A n \in {tree_collection, bush_collection} : collections[n].gen <= 1

\* a second run on the same collection has returned with its own instances
C6_Witness ==
    /\ FinishedScatter
    /\ result.placed >= 1
    /\ \E i \in collections[TargetOf(call.op)].objects : i[1] = 2

\* the objects of the hierarchy under a root
Hierarchy(objs, root) == {i \in DOMAIN objs : RootOf(objs, i) = root}

\* the collection holds n instance hierarchies, every object of which is
\* linked to this collection only
Owns(name, n) ==
    /\ Cardinality(InstanceRoots(name)) = n
    /\ \A i \in collections[name].objects :
          RootOf(objects, i) \in InstanceRoots(name)
    /\ \A r \in InstanceRoots(name) :
          \A i \in Hierarchy(objects, r) :
             users_collection(collections, i) = {name}

\* C7: at every iteration boundary the target collection holds exactly
\* `placed` instance hierarchies, and after the return exactly the returned
\* number; every object of each hierarchy is linked to the target collection
\* and to no other.
C7_Container ==
    /\ pc = "loop" => Owns(run.col, run.placed)
    /\ FinishedScatter => Owns(TargetOf(call.op), result.placed)

\* a run has returned two instances of the template with children
C7_Witness ==
    /\ FinishedScatter
    /\ result.placed = 2
    /\ \E r \in InstanceRoots(TargetOf(call.op)) :
          Cardinality(Hierarchy(objects, r)) = 3

\* the run that has returned found the objects of an earlier run
SecondRun == \E i \in collections[TargetOf(call.op)].objects : i[1] = 2

\* C8 as stated: after a second run the target collection has at most
\* `count` member objects.
C8_MembersAtMostCount ==
    (FinishedScatter /\ SecondRun) =>
        Cardinality(collections[TargetOf(call.op)].objects) <= call.req.count

\* the objects one instance of the template consists of
InstanceSize(op) ==
    IF script = "auto"
    THEN Cardinality(Hierarchy(objects, objects_get(objects, SourceOf(op))))
    ELSE 1

\* C8: during and after any run, also a second one, the target collection
\* has at most `count` instance roots, and at most `count` times the number
\* of objects of one instance as member objects.
C8_InstancesAtMostCount ==
    /\ pc = "loop" =>
          /\ Cardinality(InstanceRoots(run.col)) <= run.count
          /\ Cardinality(collections[run.col].objects)
                <= run.count * InstanceSize(call.op)
    /\ FinishedScatter =>
          /\ Cardinality(InstanceRoots(TargetOf(call.op))) <= call.req.count
          /\ Cardinality(collections[TargetOf(call.op)].objects)
                <= call.req.count * InstanceSize(call.op)

\* a second run has returned more member objects than its count
C8_Witness ==
    /\ FinishedScatter /\ SecondRun
    /\ Cardinality(collections[TargetOf(call.op)].objects) > call.req.count
    /\ Cardinality(InstanceRoots(TargetOf(call.op))) = call.req.count

\* the scene as it was before the running scatter linked its instances
PreGeneration == objects_remove(objects, collections, collections[run.col].objects)

\* C9: a sample whose ray hits the terrain in the scene without the
\* instances of the running scatter gets the same terrain hit in the scene
\* with them.
C9_NoShadowing ==
    pc = "loop" =>
        \A x, y \in Samples(run.area) :
            LET before == raycast_to_terrain(PreGeneration.objects,
                              PreGeneration.collections, run.terrain,
                              x, y, run.z_start)
            IN  before.ok =>
                    raycast_to_terrain(objects, collections, run.terrain,
                                       x, y, run.z_start) = before

\* C10: with the filter requested and no NoTrees group on the terrain, the
\* weight of every face is 0 and rejects nothing, the run finishes, and the
\* run is at every iteration boundary in the state of the run of the same
\* request without the filter under the same draws (placed, tries, positions
\* and objects).
C10_MissingGroup ==
    /\ (pc = "loop" /\ FilterEnabled
          /\ no_trees_vgroup \notin objects[run.terrain].vertex_groups) =>
            /\ \A f \in Faces :
                  /\ FaceWeight(f) = 0
                  /\ ~weight_rejects(FaceWeight(f), run.path_threshold)
            /\ script = "auto" =>
                  /\ twin.armed
                  /\ twin.run = [run EXCEPT !.use_vgroup = FALSE]
                  /\ twin.objects = objects
                  /\ twin.collections = collections
    /\ (pc = "idle" /\ call.op \in ScatterOps /\ call.req.use_vgroup
          /\ validate(script, objects, SourceOf(call.op), call.req) = ""
          /\ no_trees_vgroup
                \notin objects[objects_get(objects, terrain_name)].vertex_groups) =>
            result.status = "FINISHED"

\* without the group, an instance stands on the face whose vertices the
\* group would weigh, under threshold 0, next to the run without the filter
C10_Witness ==
    /\ pc = "loop" /\ script = "auto" /\ run.use_vgroup
    /\ no_trees_vgroup \notin objects[run.terrain].vertex_groups
    /\ twin.armed /\ twin.run.placed >= 1
    /\ run.path_threshold = 0
    /\ \E i \in InstanceRoots(run.col) :
          FaceAt(objects[i].location[1], objects[i].location[2]) = 1

\* the filter is requested and the weight the script computes for every face
\* of the terrain exceeds the threshold
ForbiddenEverywhere(use_vgroup, path_threshold) ==
    /\ script = "scripts" \/ use_vgroup
    /\ PlaneId \in DOMAIN objects
    /\ \A f \in Faces :
          (IF script = "auto"
           THEN vgroup_weight_at_face_avg(objects[PlaneId], no_trees_vgroup, f)
           ELSE VGROUP_WEIGHT_FUNC(objects[PlaneId], no_trees_vgroup, f))
              > path_threshold

\* C11: with the filter on and every face of the terrain weighing more than
\* path_threshold, a run never places an instance: its target collection
\* stays empty, it leaves the loop only with tries = count * 40, and the
\* operator returns 0 placed.
C11_AllForbidden ==
    /\ (pc = "loop" /\ ForbiddenEverywhere(run.use_vgroup, run.path_threshold)) =>
          /\ run.placed = 0
          /\ collections[run.col].objects = {}
          /\ ~loop_condition(run) => run.tries = run.count * AttemptsMultiplier
    /\ (FinishedScatter
          /\ ForbiddenEverywhere(call.req.use_vgroup, call.req.path_threshold)) =>
          /\ result.placed = 0
          /\ collections[TargetOf(call.op)].objects = {}

\* the budget of a run on a terrain painted 1.0 everywhere is used up under
\* threshold 0.5
C11_Witness ==
    /\ pc = "loop"
    /\ ForbiddenEverywhere(run.use_vgroup, run.path_threshold)
    /\ run.path_threshold = 50
    /\ run.tries = run.count * AttemptsMultiplier

\* the terrain of the running scatter lies under every sample point
CoversArea ==
    /\ objects[run.terrain].type = "MESH"
    /\ \A x, y \in Samples(run.area) : Covers(objects[run.terrain].data, x, y)

\* C12: with min_distance = 0, the filter off and the terrain under the whole
\* sampled square, a run leaves the loop with placed = count and
\* tries <= count * 40.
C12_FullCoverage ==
    (pc = "loop" /\ ~loop_condition(run) /\ run.min_distance = 0
        /\ ~FilterEnabled /\ CoversArea) =>
            /\ run.placed = run.count
            /\ run.tries <= run.count * AttemptsMultiplier

\* the object has one scale factor on all three axes, within [lo, hi]
UniformScale(o, lo, hi) ==
    /\ o.scale[1] = o.scale[2] /\ o.scale[2] = o.scale[3]
    /\ lo <= o.scale[1] /\ o.scale[1] <= hi

\* C13: every instance root of a run, during the run and after its return,
\* has one scale factor s on x, y and z with min_scale <= s <= max_scale; a
\* request is rejected for its scale range only when max_scale < min_scale,
\* so min_scale = max_scale is accepted.
C13_Scale ==
    /\ pc = "loop" =>
          \A i \in InstanceRoots(run.col) :
             UniformScale(objects[i], run.min_scale, run.max_scale)
    /\ FinishedScatter =>
          \A i \in InstanceRoots(TargetOf(call.op)) :
             UniformScale(objects[i], call.req.min_scale, call.req.max_scale)
    /\ (pc = "idle" /\ call.op \in ScatterOps /\ result.status = "CANCELLED"
          /\ result.message \in {"Invalid scale range",
                                 "Max scale must be >= Min scale."}) =>
          call.req.max_scale < call.req.min_scale

\* instances scaled by the upper end of a proper range, and by the one value
\* of a range with min_scale = max_scale
C13_Witness ==
    /\ pc = "loop"
    /\ \/ /\ run.min_scale < run.max_scale
          /\ \E i \in InstanceRoots(run.col) : objects[i].scale[1] = run.max_scale
          /\ \E i \in InstanceRoots(run.col) : objects[i].scale[1] = run.min_scale
       \/ /\ run.min_scale = run.max_scale
          /\ run.placed = 2

\* c is the copy of the template object t inside the instance under root r:
\* same parent-relative transform, and its parent is the copy of t's parent
CopyOf(c, t, r) ==
    /\ objects[c].name = objects[t].name \o ".001"
    /\ objects[c].type = objects[t].type
    /\ IF t = run.src
       THEN c = r
       ELSE /\ objects[c].matrix_parent_inverse = objects[t].matrix_parent_inverse
            /\ matrix_basis(objects[c]) = matrix_basis(objects[t])
            /\ objects[c].parent \in Hierarchy(objects, r)
            /\ objects[objects[c].parent].name
                  = objects[objects[t].parent].name \o ".001"

\* the objects of the scene that no scatter made are as they were
SceneUnchanged ==
    \E t \in TerrainChoices, k \in TemplateChoices :
        [i \in {j \in DOMAIN objects : j[1] = 0} |-> objects[i]]
            = SceneObjects(t, k)

\* C14: every instance in the target collection is a copy of the whole
\* template hierarchy: each template object has exactly one copy in it, each
\* copied child has the parent-inverse and basis matrices of its template
\* child and hangs under the copy of that child's parent, the position lies
\* on the terrain and only the root carries it; the template is unchanged.
C14_Replication ==
    pc = "loop" =>
        /\ SceneUnchanged
        /\ \A r \in InstanceRoots(run.col) :
              /\ Cardinality(Hierarchy(objects, r))
                    = Cardinality(Hierarchy(objects, run.src))
              /\ \A t \in Hierarchy(objects, run.src) :
                    \E c \in Hierarchy(objects, r) :
                        /\ CopyOf(c, t, r)
                        /\ \A d \in Hierarchy(objects, r) :
                              CopyOf(d, t, r) => d = c
              /\ Covers(objects[run.terrain].data,
                        objects[r].location[1], objects[r].location[2])

\* position, yaw and scale of the instance roots of a collection
Placements(objs, cols, name) ==
    {<<objs[i].location, objs[i].rotz, objs[i].scale>> :
        i \in {j \in cols[name].objects : objs[j].parent = NoneId}}

\* C15: at every iteration boundary, and so at return, a run has the same
\* placed, tries and accepted positions, and the same instance placements, as
\* the run of the same request under the same draws on the scene in which
\* the target collection holds nothing of an earlier run.
C15_SameAsFirstRun ==
    pc = "loop" =>
        /\ first.armed
        /\ first.run.placed = run.placed
        /\ first.run.tries = run.tries
        /\ first.run.placed_positions = run.placed_positions
        /\ Placements(first.objects, first.collections, run.col)
              = Placements(objects, collections, run.col)
        /\ Cardinality(first.collections[run.col].objects)
              = Cardinality(collections[run.col].objects)
        /\ loop_condition(first.run) = loop_condition(run)

\* a run that found the instances of an earlier run, made of a template with
\* geometry, has accepted and rejected candidates
C15_Witness ==
    /\ pc = "loop"
    /\ run.epoch = 2 /\ first.run.epoch = 1
    /\ objects[run.src].solid
    /\ run.placed >= 1 /\ run.tries > run.placed

\* what the scene's ray cast from (x, y, z_start) of the running scatter hits
RayAt(x, y) == scene_ray_cast(objects, collections, x, y, run.z_start)

\* C16: raycast_to_terrain gives a hit exactly when the nearest object under
\* (x, y, z_start) is the terrain, and then the location and face of that
\* hit; otherwise (nothing hit, or another object first, an instance of this
\* run included) a miss. Every iteration spends a try; it makes an instance
\* only where the ray hit the terrain, and none when every sample misses.
C16_TerrainHitOnly ==
    [][pc = "loop" =>
        /\ \A x, y \in Samples(run.area) :
              \A rc \in {RayAt(x, y)} :
                 \A r \in {raycast_to_terrain(objects, collections, run.terrain,
                                              x, y, run.z_start)} :
                    /\ r.ok = (rc.hit /\ rc.hit_obj = run.terrain)
                    /\ r.ok => (r.loc = rc.location /\ r.face_index = rc.face_index)
                    /\ ~r.ok => r = NoHit
        /\ pc' = "loop" =>
              /\ run'.tries = run.tries + 1
              /\ \A i \in DOMAIN objects' \ DOMAIN objects :
                    objects'[i].parent = NoneId =>
                       \A rc \in {RayAt(objects'[i].location[1],
                                        objects'[i].location[2])} :
                          /\ rc.hit /\ rc.hit_obj = run.terrain
                          /\ rc.location = objects'[i].location
              /\ objects' # objects =>
                    \E x, y \in Samples(run.area) :
                       \E rc \in {RayAt(x, y)} : rc.hit /\ rc.hit_obj = run.terrain
              /\ objects' = objects =>
                    /\ collections' = collections
                    /\ run'.placed = run.placed]_vars

\* a ray over the terrain hits an instance of the running scatter first, and
\* tries have been spent without a placement
C16_Witness ==
    /\ pc = "loop"
    /\ run.tries > run.placed
    /\ \E x, y \in Samples(run.area) :
          /\ Covers(objects[run.terrain].data, x, y)
          /\ RayAt(x, y).hit
          /\ RayAt(x, y).hit_obj \in collections[run.col].objects

TurnedAway(x, y) ==
    \A r \in {raycast_to_terrain(objects, collections, run.terrain, x, y,
                                 run.z_start)} :
        \/ ~r.ok
        \/ FilterEnabled /\ weight_rejects(FaceWeight(r.face_index), run.path_threshold)

StepTarget == IF pc = "loop" THEN run.col ELSE TargetOf(call'.op)

\* C19: a step of a scatter or a clear on one target collection leaves the
\* other target collection as it is: the same existence, the same members,
\* every member with the same fields; and a clear whose collection does not
\* exist creates no collection and changes no object.
C19_Frame ==
    [][/\ \A other \in {tree_collection, bush_collection} \ {StepTarget} :
             /\ collections'[other] = collections[other]
             /\ \A i \in collections[other].objects :
                   i \in DOMAIN objects' /\ objects'[i] = objects[i]
       /\ (pc = "idle" /\ call'.op \in {"clear_trees", "clear_bushes"}
             /\ ~collections[TargetOf(call'.op)].exists) =>
               objects' = objects /\ collections' = collections]_vars

\* both target collections have members while a scatter into one of them
\* is placing instances
C19_Witness ==
    /\ pc = "loop"
    /\ run.placed > 0
    /\ collections[tree_collection].objects # {}
    /\ collections[bush_collection].objects # {}

====
